---- MODULE Spec2Model ----
(***************************************************************************)
(* Model of pose_detection.py: the capture / estimate / draw / display     *)
(* loop of the IMX708 pose detection script.  One action per statement of  *)
(* the script; the results of the calls into cv2 and mediapipe (camera     *)
(* open, read, estimator output, key poll, handle state) are inputs drawn  *)
(* from small sets.                                                        *)
(***************************************************************************)
EXTENDS Integers, Sequences, FiniteSets, TLC

(* ---------------- bounds of the model ---------------- *)

\* number of cap.read() calls explored (100 failed reads and one good one fit)
MaxReads == 101
\* number of non-empty frames the camera delivers
MaxFrames == 3

(* ---------------- program constants ---------------- *)

ESC == 27
KeyMask == 255
FrameWidth == 640
FrameHeight == 480

(* ---------------- values ---------------- *)

\* Python's None where a frame is expected (cap.read() returns None for an
\* empty image); a record so that it compares with frames.
None == [id |-> 0, pix |-> <<>>, overlay |-> FALSE]

\* pixel contents a camera frame can have: <<b, g, r>> channel triples
Pixels == { <<1, 2, 3>>, <<7, 7, 7>> }

\* values cv2.waitKey(1) can return: -1 (no key), plain codes, and codes with
\* bits above the low byte (extended keys, modifier flags)
KeyCodes == { -1, 27, 113, 255, 283, 539 }

\* what pose.process() puts in results.pose_landmarks
NoLandmarks == "None"
Landmarks == "landmarks"

VARIABLES
    pc,          \* the statement the script is about to execute
    capOpened,   \* what cap.isOpened() returns
    success,     \* first component of the last cap.read()
    frame,       \* second component of the last cap.read(), drawn on in place
    img_rgb,     \* the converted copy handed to the estimator
    results,     \* results.pose_landmarks of the last pose.process()
    key,         \* <<value>> of the last cv2.waitKey(1), <<>> before the first
    shown,       \* image in the window 'MediaPipe Pose IMX708' (None: no window)
    output,      \* lines printed to the console
    setCalls,    \* the cap.set(prop, value) calls made, in order
    exitStatus,  \* <<status>> once the process has ended, <<>> before
    calls,       \* history: number of calls of each library function
    camFrame,    \* history: the frame as the last cap.read() delivered it
    nFrames,     \* history: number of non-empty frames delivered so far
    nValid,      \* history: number of reads that returned True and an image
    openResult,  \* history: cap.isOpened() right after construction
    cleanup      \* history: the cleanup calls made, in order

vars == << pc, capOpened, success, frame, img_rgb, results, key, shown, output,
           setCalls, exitStatus, calls, camFrame, nFrames, nValid, openResult, cleanup >>

Fns == { "read", "cvtColor", "process", "draw", "imshow", "waitKey" }

Init ==
    /\ pc = "open"
    /\ capOpened = FALSE
    /\ success = FALSE
    /\ frame = None
    /\ img_rgb = None
    /\ results = NoLandmarks
    /\ key = <<>>
    /\ shown = None
    /\ output = <<>>
    /\ setCalls = <<>>
    /\ exitStatus = <<>>
    /\ calls = [f \in Fns |-> 0]
    /\ camFrame = None
    /\ nFrames = 0
    /\ nValid = 0
    /\ openResult = <<>>
    /\ cleanup = <<>>

Called(f) == calls' = [calls EXCEPT ![f] = @ + 1]

(* ---------------- pure helpers ---------------- *)

\* cv2.cvtColor(frame, cv2.COLOR_BGR2RGB): a new image with the channel order
\* reversed; the argument is left as it is
cvtColor(img) == [img EXCEPT !.pix = << img.pix[3], img.pix[2], img.pix[1] >>]

\* mp_drawing.draw_landmarks(image, ...): draws onto the image in place
draw_landmarks(img) == [img EXCEPT !.overlay = TRUE]

\* k & 0xFF on a Python int (two's complement of unbounded width): the
\* low byte, which is k modulo 256 also for negative k
LowByte(k) == k % (KeyMask + 1)

(* ---------------- the script's decisions ---------------- *)

\* variant: a test that never reports the failed open
OpenFailed_NeverFails(opened) == FALSE

\* line 19: if not cap.isOpened()
OpenFailed(opened) == ~opened

\* line 21: sys.exit() is called with no argument; SystemExit(None) ends the
\* process with status 0, an integer argument would be the status
SysExitStatus(args) == IF args = <<>> THEN 0 ELSE args[1]

\* variant: the early exit runs the cleanup at the end of the script
AfterExit_Cleanup == "release"

\* line 21: SystemExit is not caught and no finally clause runs
AfterExit == "exited"

\* line 30: while cap.isOpened()
LoopCondition(opened) == opened

\* variant: only the success flag is tested
SkipFrame_OnlyFailedRead(s, f) == ~s

\* line 34: if not success or frame is None
SkipFrame(s, f) == ~s \/ f = None

\* variant: break in place of continue
AfterSkip_Break == "release"

\* variant: the skipped frame still reaches the key poll
AfterSkip_Poll == "waitKey"

\* line 35: continue, back to the loop condition
AfterSkip == "while"

\* lines 42-47: draw on the original frame when landmarks were returned
Drawn(f, res) == IF res # NoLandmarks THEN draw_landmarks(f) ELSE f

\* variant: the converted copy is displayed
ShownImage_Converted(f, rgb) == rgb

\* line 50: cv2.imshow(name, frame)
ShownImage(f, rgb) == f

\* variant: the Enter key (13) is tested in place of Escape
IsEscape_Enter(k) == LowByte(k) = 13

\* variant: the comparison without the 0xFF mask
IsEscape_NoMask(k) == k = ESC

\* line 53: cv2.waitKey(1) & 0xFF == 27
IsEscape(k) == LowByte(k) = ESC

\* line 54: break, to the cleanup after the loop
AfterEscape == "release"

\* variant: the windows are closed before the camera is released
CleanupOrder_Swapped == << "destroyAllWindows", "release" >>

\* lines 57-58: the order of the cleanup calls
CleanupOrder == << "release", "destroyAllWindows" >>

(* ---------------- actions ---------------- *)

\* lines 16-17: print, cap = cv2.VideoCapture(0, cv2.CAP_V4L2)
Open ==
    /\ pc = "open"
    /\ \E o \in BOOLEAN :
          /\ capOpened' = o
          /\ openResult' = << o >>
    /\ output' = Append(output, "Iniciando camara IMX708...")
    /\ pc' = "check"
    /\ UNCHANGED << success, frame, img_rgb, results, key, shown, setCalls,
                    exitStatus, calls, camFrame, nFrames, nValid, cleanup >>

\* line 19: the open check
CheckOpened ==
    /\ pc = "check"
    /\ pc' = IF OpenFailed(capOpened) THEN "print_error" ELSE "set"
    /\ UNCHANGED << capOpened, success, frame, img_rgb, results, key, shown,
                    output, setCalls, exitStatus, calls, camFrame, nFrames, nValid, openResult,
                    cleanup >>

\* line 20: print("Error: No se pudo acceder a la camara.")
PrintError ==
    /\ pc = "print_error"
    /\ output' = Append(output, "Error: No se pudo acceder a la camara.")
    /\ pc' = "sys_exit"
    /\ UNCHANGED << capOpened, success, frame, img_rgb, results, key, shown,
                    setCalls, exitStatus, calls, camFrame, nFrames, nValid, openResult, cleanup >>

\* line 21: sys.exit()
SysExit ==
    /\ pc = "sys_exit"
    /\ pc' = AfterExit
    /\ exitStatus' = IF AfterExit = "exited" THEN << SysExitStatus(<<>>) >>
                                             ELSE exitStatus
    /\ UNCHANGED << capOpened, success, frame, img_rgb, results, key, shown,
                    output, setCalls, calls, camFrame, nFrames, nValid, openResult, cleanup >>

\* lines 24-28: the two resolution requests and the two start-up messages
Configure ==
    /\ pc = "set"
    /\ setCalls' = setCalls \o << << "CAP_PROP_FRAME_WIDTH", FrameWidth >>,
                                  << "CAP_PROP_FRAME_HEIGHT", FrameHeight >> >>
    /\ output' = output \o << "Camara configurada. Iniciando procesamiento...",
                              "Presiona ESC para salir." >>
    /\ pc' = "while"
    /\ UNCHANGED << capOpened, success, frame, img_rgb, results, key, shown,
                    exitStatus, calls, camFrame, nFrames, nValid, openResult,
                    cleanup >>

\* line 30: while cap.isOpened()
While ==
    /\ pc = "while"
    /\ pc' = IF LoopCondition(capOpened) THEN "read" ELSE "release"
    /\ UNCHANGED << capOpened, success, frame, img_rgb, results, key, shown,
                    output, setCalls, exitStatus, calls, camFrame, nFrames, nValid, openResult,
                    cleanup >>

\* the images cap.read() can deliver next: None, or the next image of the stream
NextFrames ==
    { None } \cup
    ( IF nFrames < MaxFrames
        THEN { [id |-> nFrames + 1, pix |-> p, overlay |-> FALSE] : p \in Pixels }
        ELSE {} )

\* lines 31-35: success, frame = cap.read() and the test that skips the frame.
\* The device can be lost during the call (unplugged, driver error), after
\* which cap.isOpened() is false.
Read ==
    /\ pc = "read"
    /\ calls["read"] < MaxReads
    /\ \E s \in BOOLEAN, f \in NextFrames, o \in { capOpened, FALSE } :
          /\ success' = s
          /\ frame' = f
          /\ camFrame' = f
          /\ nFrames' = IF f = None THEN nFrames ELSE nFrames + 1
          /\ nValid' = IF s /\ f # None THEN nValid + 1 ELSE nValid
          /\ capOpened' = o
          /\ pc' = IF SkipFrame(s, f) THEN AfterSkip ELSE "cvtColor"
    /\ Called("read")
    /\ UNCHANGED << img_rgb, results, key, shown, output, setCalls, exitStatus,
                    openResult, cleanup >>

\* line 38: img_rgb = cv2.cvtColor(frame, cv2.COLOR_BGR2RGB); cv2 raises on an
\* argument that is no image, and nothing catches it
CvtColor ==
    /\ pc = "cvtColor"
    /\ Called("cvtColor")
    /\ IF frame = None
         THEN /\ pc' = "raised"
              /\ exitStatus' = << 1 >>
              /\ UNCHANGED img_rgb
         ELSE /\ pc' = "process"
              /\ img_rgb' = cvtColor(frame)
              /\ UNCHANGED exitStatus
    /\ UNCHANGED << capOpened, success, frame, results, key, shown, output,
                    setCalls, camFrame, nFrames, nValid, openResult, cleanup >>

\* line 39: results = pose.process(img_rgb)
Process ==
    /\ pc = "process"
    /\ Called("process")
    /\ \E r \in { NoLandmarks, Landmarks } : results' = r
    /\ pc' = "draw"
    /\ UNCHANGED << capOpened, success, frame, img_rgb, key, shown, output,
                    setCalls, exitStatus, camFrame, nFrames, nValid, openResult, cleanup >>

\* lines 42-47: if results.pose_landmarks: mp_drawing.draw_landmarks(frame, ...)
Draw ==
    /\ pc = "draw"
    /\ frame' = Drawn(frame, results)
    /\ calls' = IF results # NoLandmarks
                  THEN [calls EXCEPT !["draw"] = @ + 1] ELSE calls
    /\ pc' = "imshow"
    /\ UNCHANGED << capOpened, success, img_rgb, results, key, shown, output,
                    setCalls, exitStatus, camFrame, nFrames, nValid, openResult, cleanup >>

\* line 50: cv2.imshow('MediaPipe Pose IMX708', frame)
Imshow ==
    /\ pc = "imshow"
    /\ Called("imshow")
    /\ shown' = ShownImage(frame, img_rgb)
    /\ pc' = "waitKey"
    /\ UNCHANGED << capOpened, success, frame, img_rgb, results, key, output,
                    setCalls, exitStatus, camFrame, nFrames, nValid, openResult, cleanup >>

\* lines 53-54: if cv2.waitKey(1) & 0xFF == 27: break
WaitKey ==
    /\ pc = "waitKey"
    /\ Called("waitKey")
    /\ \E k \in KeyCodes :
          /\ key' = << k >>
          /\ pc' = IF IsEscape(k) THEN AfterEscape ELSE "while"
    /\ UNCHANGED << capOpened, success, frame, img_rgb, results, shown, output,
                    setCalls, exitStatus, camFrame, nFrames, nValid, openResult, cleanup >>

\* lines 57-58, one call of the cleanup per step; the script ends after the
\* last one and the interpreter exits with status 0
Cleanup(call) ==
    /\ capOpened' = IF call = "release" THEN FALSE ELSE capOpened
    /\ shown' = IF call = "destroyAllWindows" THEN None ELSE shown
    /\ cleanup' = Append(cleanup, call)

Release ==
    /\ pc = "release"
    /\ Cleanup(CleanupOrder[1])
    /\ pc' = "destroy"
    /\ UNCHANGED << success, frame, img_rgb, results, key, output, setCalls,
                    exitStatus, calls, camFrame, nFrames, nValid, openResult >>

DestroyAllWindows ==
    /\ pc = "destroy"
    /\ Cleanup(CleanupOrder[2])
    /\ pc' = "done"
    /\ exitStatus' = << 0 >>
    /\ UNCHANGED << success, frame, img_rgb, results, key, output, setCalls,
                    calls, camFrame, nFrames, nValid, openResult >>

Next ==
    \/ Open
    \/ CheckOpened
    \/ PrintError
    \/ SysExit
    \/ Configure
    \/ While
    \/ Read
    \/ CvtColor
    \/ Process
    \/ Draw
    \/ Imshow
    \/ WaitKey
    \/ Release
    \/ DestroyAllWindows

Spec == Init /\ [][Next]_vars

(* ---------------- vocabulary of the properties ---------------- *)

LoopPcs == { "while", "read", "cvtColor", "process", "draw", "imshow", "waitKey" }

TerminatedPcs == { "print_error", "sys_exit", "exited", "raised",
                   "release", "destroy", "done" }

\* the two control states of the loop, defined once the open check has passed
ControlState ==
    IF pc \in { "open", "check" } THEN "STARTING"
    ELSE IF pc \in LoopPcs \cup { "set" } THEN "RUNNING"
    ELSE "TERMINATED"

\* the last read returned True and an image
LastReadValid == calls["read"] > 0 /\ success /\ camFrame # None

\* the last read failed or returned no image
LastReadSkipped == calls["read"] > 0 /\ ~(success /\ camFrame # None)

\* calls of f made so far in the iterations with a valid frame, minus the
\* current iteration when it has not reached f yet
DueCalls(notYetAt) == IF pc \in notYetAt THEN nValid - 1 ELSE nValid

ErrorPrinted ==
    \E i \in 1..Len(output) : output[i] = "Error: No se pudo acceder a la camara."

ZeroCalls == [f \in Fns |-> 0]

(* ---------------- C1 ---------------- *)

\* C1 as stated: the estimator runs exactly once per valid read and never on
\* a failed or empty one, nothing raises, and after a failed or empty read
\* the next thing the script does is another read.
C1_AsStated ==
    /\ pc # "raised"
    /\ calls["process"] = DueCalls({ "cvtColor", "process" })
    /\ LastReadSkipped => pc \in { "while", "read" }

\* C1 amended: the estimator runs exactly once per valid read and never on a
\* failed or empty one, nothing raises; a failed or empty read runs none of
\* conversion, estimation, drawing, display or key poll and goes back to the
\* loop condition, from which the next step is another read when
\* cap.isOpened() still holds and the cleanup when it does not.
C1_EstimatorOncePerValidFrame ==
    [][ /\ pc' # "raised"
        /\ calls'["process"] = DueCalls({ "cvtColor", "process" })'
        /\ calls'["cvtColor"] = DueCalls({ "cvtColor" })'
        /\ (pc = "read" /\ LastReadSkipped')
              => /\ pc' = "while"
                 /\ calls' = [calls EXCEPT !["read"] = @ + 1]
                 /\ shown' = shown /\ key' = key /\ results' = results
        /\ (pc = "read" /\ LastReadValid') => pc' = "cvtColor"
        /\ (pc = "while" /\ LastReadSkipped)
              => /\ calls' = calls
                 /\ pc' = IF capOpened THEN "read" ELSE "release"
      ]_vars

\* 100 failed or empty reads, then the first valid one, estimated once
C1_Witness ==
    /\ calls["read"] = 101
    /\ nValid = 1
    /\ LastReadValid
    /\ calls["process"] = 1
    /\ pc = "draw"

(* ---------------- C2 ---------------- *)

\* C2: when the camera is not open right after construction, the script
\* prints the error and ends; it never enters the loop, never reads, never
\* calls the estimator and never shows a window.
C2_OpenFailureEndsBeforeLoop ==
    openResult = << FALSE >> =>
        /\ pc \in { "check", "print_error", "sys_exit", "exited" }
        /\ ControlState # "RUNNING"
        /\ calls = ZeroCalls
        /\ shown = None
        /\ pc \in { "sys_exit", "exited" } => ErrorPrinted
        /\ pc = "exited" => exitStatus # << >>

C2_Witness ==
    /\ openResult = << FALSE >>
    /\ pc = "exited"
    /\ ErrorPrinted

(* ---------------- C3 ---------------- *)

\* C3: when the key poll returns 27 the loop ends in that iteration: the
\* next steps are cap.release() and cv2.destroyAllWindows(), and no read,
\* estimator call or display happens afterwards.
C3_EscapeEndsLoop ==
    [][ /\ (pc = "waitKey" /\ key' = << ESC >>) => pc' = "release"
        /\ key = << ESC >> =>
              /\ calls' = calls
              /\ \/ pc = "release" /\ pc' = "destroy" /\ cleanup' = << "release" >>
                 \/ /\ pc = "destroy" /\ pc' = "done"
                    /\ cleanup' = << "release", "destroyAllWindows" >>
      ]_vars

C3_Witness ==
    /\ key = << ESC >>
    /\ pc = "done"
    /\ cleanup = << "release", "destroyAllWindows" >>

(* ---------------- C4 ---------------- *)

\* C4: the image shown is the original frame of the same iteration, not the
\* converted copy and not an older frame; it carries the overlay exactly
\* when the estimator returned landmarks and is otherwise as read; the
\* drawing comes after the estimation and before the display.
C4_ShownIsOriginalFrame ==
    /\ pc = "process" =>
          /\ frame = camFrame
          /\ img_rgb.id = camFrame.id
          /\ img_rgb.pix = << camFrame.pix[3], camFrame.pix[2], camFrame.pix[1] >>
          /\ calls["process"] = nValid - 1
    /\ pc = "draw" =>
          /\ frame = camFrame
          /\ calls["process"] = nValid
          /\ calls["imshow"] = nValid - 1
    /\ pc = "imshow" =>
          /\ frame.overlay = (results = Landmarks)
          /\ calls["imshow"] = nValid - 1
    /\ pc = "waitKey" =>
          /\ calls["imshow"] = nValid
          /\ shown.id = camFrame.id
          /\ shown.pix = camFrame.pix
          /\ shown.overlay = (results = Landmarks)
          /\ results = NoLandmarks => shown = camFrame

\* a frame with distinct channels shown with its overlay
C4_Witness ==
    /\ pc = "waitKey"
    /\ results = Landmarks
    /\ shown.overlay
    /\ shown.pix = << 1, 2, 3 >>
    /\ img_rgb.pix = << 3, 2, 1 >>
    /\ shown.id = 2

(* ---------------- C5 ---------------- *)

\* C5: the exit status tells the two endings apart: 0 after ESC, a non-zero
\* status after the failed open, whose message has been printed by then.
C5_ExitStatusDistinguishes ==
    /\ pc = "done" => exitStatus = << 0 >>
    /\ pc = "exited" => /\ ErrorPrinted
                        /\ exitStatus # << >>
                        /\ exitStatus # << 0 >>

(* ---------------- C6 ---------------- *)

\* C6 as stated: every value of the key poll other than 27, among them -1
\* and codes above 255 such as 283, leaves the loop running; only 27 ends it.
C6_AsStated ==
    [][ pc = "waitKey" => (pc' = "release" <=> key' = << ESC >>) ]_vars

\* C6 amended: the loop ends on a poll exactly when the low byte of the value
\* is 27: on 27 and on 283, 539, ... (27 + 256 n); every other value, among
\* them -1 (low byte 255), 113 and 255, leaves the loop running.
C6_LowByteDecides ==
    [][ pc = "waitKey" =>
          /\ pc' \in { "release", "while" }
          /\ pc' = "release" <=> (\E n \in 0..4 : key' = << ESC + 256 * n >>)
          /\ key' \in { << -1 >>, << 113 >>, << 255 >> } => pc' = "while"
      ]_vars

C6_Witness ==
    /\ key = << 283 >>
    /\ pc = "release"

(* ---------------- C7 ---------------- *)

\* C7 as stated: past the open check the control state is RUNNING or
\* TERMINATED, TERMINATED is absorbing, and the loop leaves RUNNING only on
\* an Escape key press (27) at the key poll.
C7_AsStated ==
    [][ /\ pc' \notin { "open", "check" } =>
              ControlState' \in { "RUNNING", "TERMINATED" }
        /\ ControlState = "TERMINATED" => ControlState' = "TERMINATED"
        /\ (ControlState = "STARTING" /\ ControlState' = "TERMINATED")
              => openResult = << FALSE >>
        /\ (ControlState = "RUNNING" /\ ControlState' = "TERMINATED")
              => (pc = "waitKey" /\ key' = << ESC >>)
      ]_vars

\* C7 amended: past the open check the control state is RUNNING or
\* TERMINATED, TERMINATED is absorbing, and the transitions into TERMINATED
\* are a failed camera open, a key poll whose low byte is 27, and the loop
\* condition finding cap.isOpened() false; a failed read or a missing
\* detection does not end the loop while the handle stays open.
C7_LeavesRunningOnEscOrClosedHandle ==
    [][ /\ pc' \notin { "open", "check" } =>
              ControlState' \in { "RUNNING", "TERMINATED" }
        /\ ControlState = "TERMINATED" => ControlState' = "TERMINATED"
        /\ (ControlState = "STARTING" /\ ControlState' = "TERMINATED")
              => openResult = << FALSE >>
        /\ (ControlState = "RUNNING" /\ ControlState' = "TERMINATED")
              => \/ pc = "waitKey" /\ (\E n \in 0..4 : key' = << ESC + 256 * n >>)
                 \/ pc = "while" /\ ~capOpened
        /\ (pc = "read" /\ capOpened') => ControlState' = "RUNNING"
        /\ pc \in { "process", "draw", "imshow" } => ControlState' = "RUNNING"
      ]_vars

\* the loop has ended although no key was ever polled
C7_Witness ==
    /\ pc = "release"
    /\ key = << >>
    /\ calls["read"] > 0
    /\ openResult = << TRUE >>

(* ---------------- C8 ---------------- *)

\* C8: every way out of the loop goes to cap.release() and then to
\* cv2.destroyAllWindows(), each once and in that order; after the release
\* there is no read, estimator call or display; while the loop runs the
\* handle has not been released.
C8_ReleaseThenDestroyOnce ==
    [][ /\ (pc \in LoopPcs /\ pc' \notin LoopPcs) => pc' = "release"
        /\ pc' \in LoopPcs \cup { "release" } => cleanup' = << >>
        /\ pc' = "destroy" => cleanup' = << "release" >> /\ ~capOpened'
        /\ pc' = "done" =>
              /\ cleanup' = << "release", "destroyAllWindows" >>
              /\ ~capOpened'
              /\ shown' = None
        /\ cleanup # << >> => calls' = calls
      ]_vars

C8_Witness ==
    /\ pc = "done"
    /\ cleanup = << "release", "destroyAllWindows" >>
    /\ calls["imshow"] > 0

(* ---------------- C9 ---------------- *)

\* C9: as long as no read has returned a valid frame, the key poll is never
\* reached: no window is shown, no key is observed, and the loop ends only
\* if the handle is found closed, so with the handle open it keeps reading
\* without bound.  Once a valid frame is read and 27 is polled, the loop is
\* over.
C9_FailedReadsBypassKeyPoll ==
    [][ /\ nValid' = 0 =>
              /\ calls'["imshow"] = 0 /\ calls'["waitKey"] = 0
              /\ shown' = None /\ key' = << >>
              /\ (pc \in LoopPcs /\ pc' \notin LoopPcs) => (pc = "while" /\ ~capOpened)
              /\ (pc = "read" /\ capOpened') => pc' = "while"
              /\ (pc = "while" /\ capOpened) => pc' = "read"
        /\ key' = << ESC >> => (nValid' > 0 /\ pc' \in { "release", "destroy", "done" })
      ]_vars

\* a hundred reads, none valid, the handle still open: still looping, no
\* window, no key observed
C9_Witness ==
    /\ calls["read"] = 100
    /\ nValid = 0
    /\ capOpened
    /\ pc = "while"
    /\ shown = None
    /\ key = << >>

(* ---------------- C10 ---------------- *)

\* C10: after a failed open the script makes no cleanup call and no
\* resolution request; release and destroyAllWindows run only when the open
\* succeeded, and the two 640x480 requests are made after the successful
\* open and before the first read.
C10_NoCleanupAfterFailedOpen ==
    /\ openResult = << FALSE >> => (cleanup = << >> /\ setCalls = << >>)
    /\ cleanup # << >> => openResult = << TRUE >>
    /\ setCalls # << >> =>
          /\ openResult = << TRUE >>
          /\ setCalls = << << "CAP_PROP_FRAME_WIDTH", 640 >>,
                           << "CAP_PROP_FRAME_HEIGHT", 480 >> >>
    /\ pc \in { "open", "check", "set" } => (setCalls = << >> /\ calls["read"] = 0)
    /\ calls["read"] > 0 => Len(setCalls) = 2

C10_Witness ==
    /\ openResult = << FALSE >>
    /\ pc = "exited"
    /\ cleanup = << >>
    /\ setCalls = << >>

====
